---- MODULE Spec2Model ----
(***************************************************************************)
(* Model of src/main.py: SpotifyPlaylistManager (get_playlist_info,        *)
(* get_average_playlist_info, update_playlist, get_matching_tracks) and    *)
(* main().                                                                 *)
(*                                                                         *)
(* A run starts in one of four operations (Init): main() after the manager *)
(* is constructed, or a call of get_average_playlist_info, update_playlist *)
(* or get_matching_tracks with arguments from bounded sets.  main passes   *)
(* update_playlist its default min_tracks = max_tracks = 20.               *)
(*                                                                         *)
(* Danceability, energy and the two ranges are counted in tenths (the      *)
(* code's 0.1 is 1), in exact arithmetic; the rounding of binary floating  *)
(* point at the edge of a band is not modelled.  A mean is kept as the     *)
(* pair sum / n; n = 0 is numpy's nan (np.mean of an empty list).          *)
(*                                                                         *)
(* The remote service is a stub: a track is identified by its URI, the URI *)
(* determines what the service answers for it (audio features, primary     *)
(* artist's genres), so a URI is modelled as the record of those answers;  *)
(* the search returns the same page for the same query in every round.     *)
(* Remote calls do not fail in the model.                                  *)
(***************************************************************************)
EXTENDS Integers, Sequences, FiniteSets, TLC

\* ---------------------------------------------------------------- bounds
MaxDance == 2
MaxEnergy == 1
MaxPage == 2
MaxPlaylist == 2
MaxMinTracks == 3
MaxMaxTracks == 1

\* ------------------------------------------------------ program constants
InitialRange == 1
RangeStep == 1
TopGenreCount == 5
SearchLimit == 50
DefaultMinTracks == 20
DefaultMaxTracks == 20

\* The ranges grow without limit in the code.  Every feature and every
\* target lies in 0..MaxDance / 0..MaxEnergy, and a run that finds a match
\* at all ends within DefaultMinTracks further rounds, so from MaxRange on
\* the band test no longer depends on the range: the model keeps MaxRange
\* as the representative of every larger range.
MaxRange == DefaultMinTracks + MaxDance + MaxEnergy + 2

Min(a, b) == IF a < b THEN a ELSE b

Range(s) == {s[i] : i \in DOMAIN s}

Take(s, n) == SubSeq(s, 1, Min(n, Len(s)))

SeqsUpTo(S, n) == UNION {[1..k -> S] : k \in 0..n}

\* The playlists of at most n tracks.  The code reads the playlist in order,
\* but what it computes from it (the set of genres, the two means, the
\* membership test of line 83) does not depend on the order, so of the
\* playlists that differ only in order one is listed.
Playlists(S, n) ==
  {s \in SeqsUpTo(S, n) :
     \A i \in 1..(Len(s) - 1) :
        s[i].danceability * (MaxEnergy + 1) + s[i].energy
          <= s[i + 1].danceability * (MaxEnergy + 1) + s[i + 1].energy}

\* the result pages of at most n tracks: a page lists a track once
Pages(S, n) ==
  {s \in SeqsUpTo(S, n) : \A i, j \in DOMAIN s : i # j => s[i] # s[j]}

\* ------------------------------------------------------ remote catalogue
TracksWith(G) ==
  {[danceability |-> d, energy |-> e, genres |-> g] :
      d \in 0..MaxDance, e \in {0, MaxEnergy}, g \in G}

Tracks == TracksWith({<<"pop">>})

ArtistGenreLists ==
  {<<>>, <<"pop">>, <<"pop", "rock">>, <<"jazz", "folk", "soul", "funk">>}

ProfileTracks ==
  {[danceability |-> d, energy |-> 0, genres |-> g] :
      d \in {0, MaxDance}, g \in ArtistGenreLists}

\* sp.audio_features([id])[0]
AudioFeatures(uri) == [danceability |-> uri.danceability, energy |-> uri.energy]

\* sp.artist(track['artists'][0]['id'])['genres']
ArtistGenres(uri) == uri.genres

\* sp.search(q=query, type='track', limit=50)['tracks']['items']
Search(cat) == Take(cat, SearchLimit)

\* ------------------------------------------------------------ the profile
RECURSIVE ExtendGenres(_)
ExtendGenres(items) ==
  IF items = <<>> THEN <<>>
  ELSE ArtistGenres(items[1]) \o ExtendGenres(Tail(items))

RECURSIVE Sum(_)
Sum(s) == IF s = <<>> THEN 0 ELSE s[1] + Sum(Tail(s))

\* np.mean: sum / n, nan (n = 0) for an empty list
Mean(values) == [sum |-> Sum(values), n |-> Len(values)]

IsNaN(m) == m.n = 0

\* list(set(genres)): the distinct genres, in the order the set iterates
\* them.  Python randomises string hashes per process, so every order of
\* the distinct genres is a possible outcome.
RECURSIVE ListsOfSet(_)
ListsOfSet(S) ==
  IF S = {} THEN {<<>>}
  ELSE UNION {{<<x>> \o p : p \in ListsOfSet(S \ {x})} : x \in S}

\* Counter(list)[g]
Count(list, g) == Cardinality({i \in DOMAIN list : list[i] = g})

\* the keys of Counter(list): distinct elements in first-seen order
RECURSIVE Keys(_)
Keys(list) ==
  IF list = <<>> THEN <<>>
  ELSE LET rest == Keys(SubSeq(list, 1, Len(list) - 1))
           last == list[Len(list)]
       IN IF last \in Range(rest) THEN rest ELSE Append(rest, last)

\* sorted(keys, key=count, reverse=True): stable, so equal counts keep
\* their first-seen order
RECURSIVE SortedByCount(_, _)
SortedByCount(keys, list) ==
  IF keys = <<>> THEN <<>>
  ELSE LET best == CHOOSE i \in DOMAIN keys :
                     /\ \A j \in DOMAIN keys : Count(list, keys[j]) <= Count(list, keys[i])
                     /\ \A j \in 1..(i - 1) : Count(list, keys[j]) < Count(list, keys[i])
           others == [k \in 1..(Len(keys) - 1) |-> IF k < best THEN keys[k] ELSE keys[k + 1]]
       IN <<keys[best]>> \o SortedByCount(others, list)

\* Counter(list).most_common(n), keys only
MostCommon(list, n) == Take(SortedByCount(Keys(list), list), n)

\* ------------------------------------------------------------ the matcher
\* target - range <= value <= target + range, target = sum / n;
\* every comparison with nan is False
InBand_Strict(target, range, value) ==
  /\ target.n > 0
  /\ target.sum - target.n * range < target.n * value
  /\ target.n * value < target.sum + target.n * range

InBand(target, range, value) ==
  /\ target.n > 0
  /\ target.sum - target.n * range <= target.n * value
  /\ target.n * value <= target.sum + target.n * range

Matches(uri, td, te, dr, er) ==
  /\ InBand(td, dr, AudioFeatures(uri).danceability)
  /\ InBand(te, er, AudioFeatures(uri).energy)

\* the for loop over results['tracks']['items']
FilterPage(page, td, te, dr, er) ==
  SelectSeq(page, LAMBDA t : Matches(t, td, te, dr, er))

WhileCondition_OffByOne(found, minimum) == Len(found) < minimum - 1

WhileCondition_Inclusive(found, minimum) == Len(found) <= minimum

WhileCondition(found, minimum) == Len(found) < minimum

Widen(range) == Min(range + RangeStep, MaxRange)

\* ------------------------------------------------------ update_playlist
FilterDuplicates(track_uris, current) ==
  SelectSeq(track_uris, LAMBDA u : u \notin Range(current))

\* uris[:maximum]
LimitTracks(uris, maximum) ==
  IF maximum >= 0 THEN Take(uris, maximum)
  ELSE SubSeq(uris, 1, IF Len(uris) + maximum > 0 THEN Len(uris) + maximum ELSE 0)

NewTrackUris_LimitFirst(track_uris, current, maximum) ==
  FilterDuplicates(LimitTracks(track_uris, maximum), current)

\* lines 83-86: filter out the current playlist's tracks, then limit
NewTrackUris(track_uris, current, maximum) ==
  LimitTracks(FilterDuplicates(track_uris, current), maximum)

\* str.lower() on the answers the model enters
Lower(s) == IF s = "Y" THEN "y" ELSE s

Confirmed_UnlessNo(a) == Lower(a) # "n"

\* line 142
Confirmed(a) == Lower(a) = "y"

Answers == {"y", "Y", "n", "yes", ""}

Unasked == "unasked"

NoProfile ==
  [top_genres |-> <<>>,
   average_danceability |-> [sum |-> 0, n |-> 1],
   average_energy |-> [sum |-> 0, n |-> 1]]

Number(v) == [sum |-> v, n |-> 1]

\* ------------------------------------------------------------------ state
VARIABLES
  pc,                   \* where the run stands
  entry,                \* the operation the run started in
  playlist,             \* the remote playlist: its track URIs, in order
  catalog,              \* what the remote search finds for the query
  playlist_info,        \* main: result of get_average_playlist_info
  answer,               \* main: update_playlist, the operator's answer
  target_genres,        \* arguments of update_playlist / get_matching_tracks
  target_danceability,
  target_energy,
  min_tracks,
  max_tracks,
  matching_tracks,      \* get_matching_tracks locals
  danceability_range,
  energy_range,
  current_track_uris,   \* update_playlist locals
  new_track_uris,
  search_calls,         \* number of sp.search calls issued
  replace_calls         \* number of sp.playlist_replace_items calls issued

vars ==
  <<pc, entry, playlist, catalog, playlist_info, answer, target_genres,
    target_danceability, target_energy, min_tracks, max_tracks,
    matching_tracks, danceability_range, energy_range, current_track_uris,
    new_track_uris, search_calls, replace_calls>>

args == <<target_genres, target_danceability, target_energy, min_tracks, max_tracks>>

matcher == <<matching_tracks, danceability_range, energy_range>>

updater == <<current_track_uris, new_track_uris>>

InitLocals ==
  /\ playlist_info = NoProfile
  /\ answer = Unasked
  /\ matching_tracks = <<>>
  /\ danceability_range = InitialRange
  /\ energy_range = InitialRange
  /\ current_track_uris = <<>>
  /\ new_track_uris = <<>>
  /\ search_calls = 0
  /\ replace_calls = 0

NoArgs ==
  /\ target_genres = <<>>
  /\ target_danceability = Number(0)
  /\ target_energy = Number(0)
  /\ min_tracks = DefaultMinTracks
  /\ max_tracks = DefaultMaxTracks

\* main() after the manager is constructed (line 134)
InitMain ==
  /\ pc = "main"
  /\ entry = "main"
  /\ playlist \in Playlists(Tracks, MaxPlaylist)
  /\ catalog \in Pages(Tracks, MaxPage - 1)
  /\ NoArgs
  /\ InitLocals

\* a call of get_average_playlist_info()
InitProfile ==
  /\ pc = "get_average_playlist_info"
  /\ entry = "get_average_playlist_info"
  /\ playlist \in Playlists(ProfileTracks, MaxPlaylist)
  /\ catalog = <<>>
  /\ NoArgs
  /\ InitLocals

\* a call of update_playlist(target_genres, target_danceability,
\* target_energy, min_tracks, max_tracks)
InitUpdate ==
  /\ pc = "update_playlist"
  /\ entry = "update_playlist"
  /\ playlist \in Playlists(Tracks, MaxPlaylist - 1)
  /\ catalog \in Pages(Tracks, MaxPage)
  /\ target_genres = <<"pop">>
  /\ target_danceability = Number(0)
  /\ target_energy = Number(0)
  /\ min_tracks \in 0..MaxMinTracks
  /\ max_tracks \in 0..MaxMaxTracks
  /\ InitLocals

\* a call of get_matching_tracks(target_genres, target_danceability,
\* target_energy, min_tracks)
InitMatching ==
  /\ pc = "get_matching_tracks"
  /\ entry = "get_matching_tracks"
  /\ playlist = <<>>
  /\ catalog \in Pages(Tracks, MaxPage)
  /\ target_genres = <<"pop">>
  /\ target_danceability \in {Number(v) : v \in 0..MaxDance}
  /\ target_energy \in {Number(v) : v \in {0, MaxEnergy}}
  /\ min_tracks \in 0..MaxMinTracks
  /\ max_tracks = DefaultMaxTracks
  /\ InitLocals

Init == InitMain \/ InitProfile \/ InitUpdate \/ InitMatching

\* ---------------------------------------------------------------- actions
\* get_average_playlist_info, with the get_playlist_info call it makes
GetAveragePlaylistInfo ==
  /\ pc \in {"main", "get_average_playlist_info"}
  /\ \E genres \in ListsOfSet(Range(ExtendGenres(playlist))) :
       playlist_info' =
         [top_genres |-> MostCommon(genres, TopGenreCount),
          average_danceability |->
            Mean([i \in DOMAIN playlist |-> AudioFeatures(playlist[i]).danceability]),
          average_energy |->
            Mean([i \in DOMAIN playlist |-> AudioFeatures(playlist[i]).energy])]
  /\ pc' = IF entry = "main" THEN "prompt" ELSE "done"
  /\ UNCHANGED <<entry, playlist, catalog, answer, args, matcher, updater,
                 search_calls, replace_calls>>

\* main, lines 141-147: the prompt and the branch on the answer
AskUpdate ==
  /\ pc = "prompt"
  /\ \E a \in Answers :
       /\ answer' = a
       /\ IF Confirmed(a)
          THEN /\ pc' = "update_playlist"
               /\ target_genres' = playlist_info.top_genres
               /\ target_danceability' = playlist_info.average_danceability
               /\ target_energy' = playlist_info.average_energy
               /\ min_tracks' = DefaultMinTracks
               /\ max_tracks' = DefaultMaxTracks
          ELSE /\ pc' = "done"
               /\ UNCHANGED args
  /\ UNCHANGED <<entry, playlist, catalog, playlist_info, matcher, updater,
                 search_calls, replace_calls>>

\* get_matching_tracks, lines 104-109, called on its own or by
\* update_playlist (lines 75-76) with the arguments it was given
GetMatchingTracks ==
  /\ pc \in {"update_playlist", "get_matching_tracks"}
  /\ matching_tracks' = <<>>
  /\ danceability_range' = InitialRange
  /\ energy_range' = InitialRange
  /\ pc' = "while"
  /\ UNCHANGED <<entry, playlist, catalog, playlist_info, answer, args,
                 updater, search_calls, replace_calls>>

\* line 111, and the return of lines 125-126 when the test fails
WhileTest ==
  /\ pc = "while"
  /\ pc' = IF WhileCondition(matching_tracks, min_tracks) THEN "body"
           ELSE IF entry = "get_matching_tracks" THEN "done"
           ELSE "filter"
  /\ UNCHANGED <<entry, playlist, catalog, playlist_info, answer, args,
                 matcher, updater, search_calls, replace_calls>>

WhileBody_SkipKnown ==
  /\ pc = "body"
  /\ LET found == matching_tracks \o
                  SelectSeq(FilterPage(Search(catalog), target_danceability,
                                       target_energy, danceability_range,
                                       energy_range),
                            LAMBDA u : u \notin Range(matching_tracks))
     IN /\ matching_tracks' = found
        /\ IF WhileCondition(found, min_tracks)
           THEN /\ danceability_range' = Widen(danceability_range)
                /\ energy_range' = Widen(energy_range)
           ELSE UNCHANGED <<danceability_range, energy_range>>
  /\ search_calls' = Min(search_calls + 1, MaxRange)
  /\ pc' = "while"
  /\ UNCHANGED <<entry, playlist, catalog, playlist_info, answer, args,
                 updater, replace_calls>>

WhileBody_EnergyKept ==
  /\ pc = "body"
  /\ LET found == matching_tracks \o
                  FilterPage(Search(catalog), target_danceability, target_energy,
                             danceability_range, energy_range)
     IN /\ matching_tracks' = found
        /\ IF WhileCondition(found, min_tracks)
           THEN /\ danceability_range' = Widen(Widen(danceability_range))
                /\ UNCHANGED energy_range
           ELSE UNCHANGED <<danceability_range, energy_range>>
  /\ search_calls' = Min(search_calls + 1, MaxRange)
  /\ pc' = "while"
  /\ UNCHANGED <<entry, playlist, catalog, playlist_info, answer, args,
                 updater, replace_calls>>

\* lines 112-123: one round
WhileBody ==
  /\ pc = "body"
  /\ LET found == matching_tracks \o
                  FilterPage(Search(catalog), target_danceability, target_energy,
                             danceability_range, energy_range)
     IN /\ matching_tracks' = found
        /\ IF WhileCondition(found, min_tracks)
           THEN /\ danceability_range' = Widen(danceability_range)
                /\ energy_range' = Widen(energy_range)
           ELSE UNCHANGED <<danceability_range, energy_range>>
  /\ search_calls' = Min(search_calls + 1, MaxRange)
  /\ pc' = "while"
  /\ UNCHANGED <<entry, playlist, catalog, playlist_info, answer, args,
                 updater, replace_calls>>

\* update_playlist, lines 79-89
ReplaceItems ==
  /\ pc = "filter"
  /\ current_track_uris' = playlist
  /\ new_track_uris' = NewTrackUris(matching_tracks, playlist, max_tracks)
  /\ playlist' = new_track_uris'
  /\ replace_calls' = replace_calls + 1
  /\ pc' = "done"
  /\ UNCHANGED <<entry, catalog, playlist_info, answer, args, matcher,
                 search_calls>>

Next ==
  \/ GetAveragePlaylistInfo
  \/ AskUpdate
  \/ GetMatchingTracks
  \/ WhileTest
  \/ WhileBody
  \/ ReplaceItems

Spec == Init /\ [][Next]_vars

\* get_matching_tracks called on its own
MatcherNext == GetMatchingTracks \/ WhileTest \/ WhileBody

MatcherSpec == InitMatching /\ [][MatcherNext]_vars

\* the interpreter keeps running a call that can take a step
MatcherFairSpec == MatcherSpec /\ WF_vars(MatcherNext)

TypeOK ==
  /\ pc \in {"main", "get_average_playlist_info", "prompt", "update_playlist",
              "get_matching_tracks", "while", "body", "filter", "done"}
  /\ danceability_range \in InitialRange..MaxRange
  /\ energy_range \in InitialRange..MaxRange
  /\ search_calls \in 0..MaxRange
  /\ replace_calls \in 0..1
  /\ min_tracks \in 0..DefaultMinTracks

\* ------------------------------------------------- vocabulary of the claims
\* get_matching_tracks has returned to its caller
MatcherReturned ==
  \/ pc = "filter"
  \/ pc = "done" /\ entry = "get_matching_tracks"
  \/ pc = "done" /\ replace_calls = 1

\* get_average_playlist_info has returned and the playlist is still the one
\* it analysed
ProfileReturned ==
  \/ pc = "prompt"
  \/ pc = "done" /\ entry = "get_average_playlist_info"

Abs(x) == IF x < 0 THEN -x ELSE x

\* |value - target| <= radius, target = sum / n
Near(target, radius, value) ==
  /\ target.n > 0
  /\ Abs(target.n * value - target.sum) <= target.n * radius

\* the track is within the radius of both targets
Eligible(uri, radius) ==
  /\ Near(target_danceability, radius, uri.danceability)
  /\ Near(target_energy, radius, uri.energy)

\* the elements of s at the positions in I, in the order of s
RECURSIVE AtPositions(_, _)
AtPositions(s, I) ==
  IF I = {} THEN <<>>
  ELSE LET last == CHOOSE i \in I : \A j \in I : j <= i
       IN Append(AtPositions(s, I \ {last}), s[last])

\* the page's tracks within the radius, in candidate order
EligibleOfPage(radius) ==
  AtPositions(catalog, {i \in DOMAIN catalog : Eligible(catalog[i], radius)})

\* the page's tracks within the radius but not within the one before
NewlyEligibleOfPage(radius) ==
  AtPositions(catalog, {i \in DOMAIN catalog :
                           /\ Eligible(catalog[i], radius)
                           /\ ~Eligible(catalog[i], radius - 1)})

RECURSIVE AllRounds(_)
AllRounds(k) ==
  IF k = 0 THEN <<>> ELSE AllRounds(k - 1) \o EligibleOfPage(k)

RECURSIVE AdditionalRounds(_)
AdditionalRounds(k) ==
  IF k = 0 THEN <<>> ELSE AdditionalRounds(k - 1) \o NewlyEligibleOfPage(k)

\* ------------------------------------------------------------------ claims
\* C1: the matcher always terminates: every call of get_matching_tracks,
\* also one whose catalog never offers an eligible track, leaves the
\* widening loop and returns after a bounded number of rounds.
C1_MatcherTerminates ==
  (pc \in {"update_playlist", "get_matching_tracks"}) ~> MatcherReturned

\* C2: whenever the matcher has returned, the returned sequence holds at
\* least min_tracks identifiers.
C2_ReturnsAtLeastMinimum ==
  MatcherReturned => Len(matching_tracks) >= min_tracks

C2_Witness ==
  /\ MatcherReturned
  /\ min_tracks >= 2
  /\ search_calls >= 2
  /\ Len(matching_tracks) > min_tracks

\* C3: with min_tracks >= 1 and at least min_tracks tracks of the page within
\* radius 0.1 of both targets, the matcher issues exactly one query, never
\* widens, and returns exactly the page's tracks within radius 0.1, in
\* candidate order.
C3_OneRoundWhenEnough ==
  ( /\ MatcherReturned
    /\ min_tracks >= 1
    /\ Len(EligibleOfPage(InitialRange)) >= min_tracks )
  => /\ search_calls = 1
     /\ danceability_range = InitialRange
     /\ energy_range = InitialRange
     /\ matching_tracks = EligibleOfPage(InitialRange)

C3_Witness ==
  /\ MatcherReturned
  /\ min_tracks >= 1
  /\ Len(EligibleOfPage(InitialRange)) >= min_tracks
  /\ Len(EligibleOfPage(InitialRange)) < Len(catalog)
  /\ search_calls = 1

C6_WideningMonotone ==
  /\ [](danceability_range = energy_range)
  /\ [](pc \in {"update_playlist", "get_matching_tracks", "while"} /\ search_calls = 0
          => danceability_range = InitialRange)
  /\ [](pc = "body" => danceability_range = Min(search_calls + 1, MaxRange))
  /\ [][ /\ Len(matching_tracks') >= Len(matching_tracks)
         /\ danceability_range' # danceability_range =>
              /\ pc = "body"
              /\ Len(matching_tracks') < min_tracks
              /\ danceability_range' = danceability_range + 1
              /\ energy_range' = energy_range + 1
         /\ ( /\ pc = "body"
              /\ Len(matching_tracks') < min_tracks
              /\ danceability_range < MaxRange ) =>
              danceability_range' = danceability_range + 1 ]_vars

C6_Witness ==
  /\ pc = "body"
  /\ danceability_range = 3
  /\ energy_range = 3
  /\ Len(matching_tracks) >= 1

\* C10 as stated: the loop is a repeat-until, at least one round is run
\* before the matcher returns, for min_tracks = 0 too.
C10_AtLeastOneRound ==
  MatcherReturned => search_calls >= 1

\* C10 amended: the loop is tested before its first round: with
\* min_tracks >= 1 at least one round is run before the matcher returns; with
\* min_tracks = 0 no query is issued and the empty sequence is returned.
C10_TestedBeforeFirstRound ==
  MatcherReturned =>
    /\ min_tracks >= 1 => search_calls >= 1
    /\ min_tracks = 0 => search_calls = 0 /\ matching_tracks = <<>>

C10_Witness ==
  /\ MatcherReturned
  /\ min_tracks = 0
  /\ catalog # <<>>
  /\ Len(EligibleOfPage(InitialRange)) >= 1

\* the positions of the matcher's result whose track is not in the
\* playlist update_playlist read
Kept ==
  {j \in DOMAIN matching_tracks : matching_tracks[j] \notin Range(current_track_uris)}

\* the n smallest elements of the set of positions K
FirstOf(K, n) == {j \in K : Cardinality({k \in K : k <= j}) <= n}

\* C4: the list update_playlist passes to the replace operation is the
\* matcher's result without every identifier of the current playlist, order
\* kept, cut to its first max_tracks elements; it holds no element of the
\* current playlist and at most max_tracks elements, and it becomes the
\* playlist.
C4_FilterThenLimit ==
  replace_calls = 1 =>
    /\ new_track_uris = AtPositions(matching_tracks, FirstOf(Kept, max_tracks))
    /\ Range(new_track_uris) \cap Range(current_track_uris) = {}
    /\ Len(new_track_uris) <= max_tracks
    /\ playlist = new_track_uris

C4_Witness ==
  /\ replace_calls = 1
  /\ max_tracks >= 1
  /\ Cardinality(Kept) > max_tracks
  /\ matching_tracks # <<>>
  /\ matching_tracks[1] \in Range(current_track_uris)
  /\ Len(new_track_uris) = max_tracks

\* the number of playlist tracks whose primary artist has the genre
TrackFrequency(g) ==
  Cardinality({i \in DOMAIN playlist : g \in Range(playlist[i].genres)})

PlaylistGenres == UNION {Range(playlist[i].genres) : i \in DOMAIN playlist}

\* C7: for a non-empty playlist top_genres has at most 5 genres, lists them
\* in non-increasing order of the number of playlist tracks that have the
\* genre, and leaves out no genre more frequent than one it lists.
C7_TopGenresByFrequency ==
  (ProfileReturned /\ playlist # <<>>) =>
    LET top == playlist_info.top_genres
    IN /\ Len(top) <= TopGenreCount
       /\ \A i, j \in DOMAIN top :
            i < j => TrackFrequency(top[i]) >= TrackFrequency(top[j])
       /\ \A g \in PlaylistGenres \ Range(top) : \A h \in Range(top) :
            TrackFrequency(g) <= TrackFrequency(h)

\* C8: the profile of an empty playlist is never returned: no profile with
\* undefined means exists, and the run does not reach the update prompt.
C8_EmptyPlaylistFails ==
  ProfileReturned =>
    /\ playlist # <<>>
    /\ ~IsNaN(playlist_info.average_danceability)
    /\ ~IsNaN(playlist_info.average_energy)

Yes == {"y", "Y"}

\* C9: in a run of main the replace operation is called at most once, and
\* neither it nor a search is called unless the operator answered y or Y;
\* after any other answer the run is over with no search and no replace
\* issued, and the playlist changes in no step of such a run.
C9_OnlyAfterConfirmation ==
  /\ [](replace_calls <= 1)
  /\ []((entry = "main" /\ (search_calls > 0 \/ replace_calls > 0)) => answer \in Yes)
  /\ []((entry = "main" /\ answer \notin Yes \cup {Unasked}) =>
          pc = "done" /\ search_calls = 0 /\ replace_calls = 0)
  /\ [][(entry = "main" /\ answer' \notin Yes) => playlist' = playlist]_vars

C9_Witness ==
  /\ entry = "main"
  /\ pc = "done"
  /\ answer = "yes"
  /\ playlist # <<>>
  /\ catalog # <<>>

====
